---------------------------- MODULE Spec2Model ----------------------------
(***************************************************************************)
(* Workflow execution engine of backend/services/workflow_service.py.      *)
(*                                                                         *)
(* One stored workflow (table rows of Workflow, WorkflowStep and           *)
(* WorkflowVariable) is created and edited through create_workflow,        *)
(* add_step and update_workflow, and run through execute_workflow.  A run  *)
(* is split at the                                                         *)
(* await of _execute_step: StartRun is the code up to the first await,     *)
(* RunStep is one iteration of the step loop, the code after the loop      *)
(* included when the iteration is the last one.                            *)
(*                                                                         *)
(* execute_workflow works on the object get_workflow returns; its status   *)
(* and error fields are the variable `workflow`, the stored row is `db`.   *)
(* validate_input_data reads workflow.variables as its annotation          *)
(* (workflow: Workflow) declares it: the declared variables of the         *)
(* workflow; tool.signature is read as the declared ToolSignature.         *)
(*                                                                         *)
(* The prompt-template part is routers/tools.py execute_llm over one       *)
(* stored PromptTemplate and one LLMExecuteRequest, with the signature     *)
(* _get_llm_signature derives from the same template.  Texts are           *)
(* sequences of one-character strings, so that replace, split and strip    *)
(* work on characters as the str methods do.  LlmSpec runs this part.      *)
(***************************************************************************)
EXTENDS Integers, Sequences, FiniteSets, TLC

VARIABLES
  db,         \* the stored workflow: NoWorkflow or [steps, variables, status, error]
  pc,         \* position of execute_workflow: idle, running, returned, raised
  input_data, \* execution_data.input_data of the current call
  workflow,   \* the object execute_workflow got from get_workflow: [status, error]
  steps,      \* the steps the run loaded, ordered by sequence_number
  idx,        \* position in `steps` of the next loop iteration
  context,    \* the execution context: [output, step_outputs]
  executed,   \* sequence numbers of the steps _execute_step was called for, in call order
  response,   \* the WorkflowExecuteResponse returned, or NoResponse
  exc,        \* the exception execute_workflow raised, or NoExc
  template,   \* the stored prompt template the request names, or NoTemplate
  request,    \* the LLMExecuteRequest: [regular_variables, file_variables]
  llm,        \* the execute_llm call: [pc, messages, system, calls, response, exc, signature]
  resolution, \* one parameter mapping and what resolving it gave: [mapping, pc, value, times]
  runs        \* two execute_workflow calls for the one stored workflow, each with its own
              \* [pc, input_data, workflow, steps, idx, context, response, exc]

wfvars == <<db, pc, input_data, workflow, steps, idx, context, executed, response, exc>>
llmvars == <<template, request, llm>>
resvars == <<resolution>>
runvars == <<runs>>
vars == <<db, pc, input_data, workflow, steps, idx, context, executed, response, exc,
          template, request, llm, resolution, runs>>

-----------------------------------------------------------------------------
(* Bounds of the model *)

MaxSteps == 2      \* most steps a stored workflow holds
MaxSeq == 2        \* largest sequence_number a caller supplies
MaxPieces == 2     \* most pieces a user message template is put together from
MaxResolutions == 2  \* most times one mapping is resolved against one context

-----------------------------------------------------------------------------
(* Values *)

None == "None"                 \* Python None
NoTool == ""                   \* WorkflowStep.tool_id is NULL
NoWorkflow == [status |-> "absent"]
NoResponse == [status |-> "none"]
NoExc == [cls |-> "none"]
EmptyDict == <<>>

Get(d, k) == IF k \in DOMAIN d THEN d[k] ELSE None

\* dict update d[k] = v
Put(d, k, v) == [x \in (DOMAIN d) \cup {k} |-> IF x = k THEN v ELSE d[x]]

\* the rows of the tools table
Tools ==
  ("t1" :> [name |-> "llm1",
            signature |-> [parameters |-> <<[name |-> "q", required |-> TRUE]>>,
                           outputs |-> <<[name |-> "response"]>>]])
  @@ ("t2" :> [name |-> "search",
               signature |-> [parameters |-> <<[name |-> "q", required |-> TRUE],
                                               [name |-> "r", required |-> FALSE]>>,
                              outputs |-> <<[name |-> "hits"]>>]])

\* evaluation_config of a step created without one
DefaultEvaluationConfig ==
  [conditions |-> <<>>, default_action |-> "continue", maximum_jumps |-> 1]


-----------------------------------------------------------------------------
(* What callers supply *)

\* a mapping expression is the string split at its dots: "input.echo" is
\* <<"input", "echo">>, a literal without a dot is a one-element sequence
InputEcho == <<"input", "echo">>

Condition(var, op, val, target) ==
  [variable |-> var, operator |-> op, value |-> val, target_step_index |-> target]

\* the step_data a caller sends to create_workflow or add_step, sequence_number aside
StepShapes ==
  { [step_type |-> "INPUT", tool_id |-> NoTool,
     parameter_mappings |-> EmptyDict, output_mappings |-> ("echo" :> "greeting"),
     evaluation_config |-> DefaultEvaluationConfig],
    [step_type |-> "ACTION", tool_id |-> "t1",
     parameter_mappings |-> ("q" :> InputEcho),
     output_mappings |-> ("response" :> "greeting") @@ ("missing" :> "answer"),
     evaluation_config |-> DefaultEvaluationConfig],
    [step_type |-> "ACTION", tool_id |-> "t1",
     parameter_mappings |-> EmptyDict, output_mappings |-> ("response" :> "answer"),
     evaluation_config |-> DefaultEvaluationConfig],
    [step_type |-> "EVALUATION", tool_id |-> NoTool,
     parameter_mappings |-> EmptyDict, output_mappings |-> EmptyDict,
     evaluation_config |->
       [conditions |-> <<Condition("echo", "equals", "hi", 0)>>,
        default_action |-> "end", maximum_jumps |-> 2]],
    [step_type |-> "EVALUATION", tool_id |-> NoTool,
     parameter_mappings |-> EmptyDict, output_mappings |-> EmptyDict,
     evaluation_config |->
       [conditions |-> <<>>, default_action |-> "end", maximum_jumps |-> 1]],
    [step_type |-> "EVALUATION", tool_id |-> NoTool,
     parameter_mappings |-> EmptyDict, output_mappings |-> EmptyDict,
     evaluation_config |->
       [conditions |-> <<Condition("echo", "equals", "hi", MaxSteps)>>,
        default_action |-> "continue", maximum_jumps |-> 1]] }

\* an ACTION step sent without a tool_id
ToollessAction ==
  [step_type |-> "ACTION", tool_id |-> NoTool,
   parameter_mappings |-> ("q" :> InputEcho), output_mappings |-> ("response" :> "answer"),
   evaluation_config |-> DefaultEvaluationConfig]

\* the steps a caller sends: every shape under every sequence number, the
\* ACTION step without a tool under sequence number 0
StepData ==
  { [shape |-> sh, sequence_number |-> n] : sh \in StepShapes, n \in 0..MaxSeq }
    \cup { [shape |-> ToollessAction, sequence_number |-> 0] }

StepLists == UNION { [1..n -> StepData] : n \in 0..MaxSteps }

\* the steps a caller sends to update_workflow, INPUT and ACTION steps: their
\* sequence_number is overwritten by the position in the list
ShapeLists ==
  UNION { [1..n -> { sh \in StepShapes : sh.step_type # "EVALUATION" }] : n \in 0..MaxSteps }

\* the status strings a caller sends to create_workflow or update_workflow
Statuses == {"draft", "completed"}

\* the state lists a caller declares
VariableLists ==
  LET e == [name |-> "echo", io_type |-> "input"]
      g == [name |-> "greeting", io_type |-> "output"]
  IN  { <<>>, <<e>>, <<g>>, <<e, g>> }

\* the input_data a caller sends to execute_workflow
InputMaps ==
  LET v == ("echo" :> "hi") @@ ("greeting" :> "yo")
  IN  { [k \in ks |-> v[k]] : ks \in SUBSET {"echo", "greeting"} }

-----------------------------------------------------------------------------
(* Stored rows *)

\* step_id=str(uuid4()): the n-th step row created gets a fresh id
StepId(n) == "s" \o ToString(n)

WorkflowStep(data, n) ==
  [step_id |-> StepId(n),
   step_type |-> data.shape.step_type,
   tool_id |-> data.shape.tool_id,
   parameter_mappings |-> data.shape.parameter_mappings,
   output_mappings |-> data.shape.output_mappings,
   evaluation_config |-> data.shape.evaluation_config,
   sequence_number |-> data.sequence_number]

\* order_by(WorkflowStep.sequence_number): insertion of each row before the
\* first row of a larger sequence number
RECURSIVE InsertBySeq(_, _)
InsertBySeq(row, sorted) ==
  IF sorted = <<>> THEN <<row>>
  ELSE IF Head(sorted).sequence_number > row.sequence_number
       THEN <<row>> \o sorted
       ELSE <<Head(sorted)>> \o InsertBySeq(row, Tail(sorted))

\* mutant: the rows come in the order they were stored
OrderBySequenceNumber_Stored(rows) == rows

RECURSIVE OrderBySequenceNumber(_)
OrderBySequenceNumber(rows) ==
  IF rows = <<>> THEN <<>>
  ELSE InsertBySeq(rows[Len(rows)], OrderBySequenceNumber(SubSeq(rows, 1, Len(rows) - 1)))

-----------------------------------------------------------------------------
(* Validation *)

Exception(cls, msg) == [cls |-> cls, msg |-> msg]

\* str(e)
Str(e) == e.msg

Min(S) == CHOOSE x \in S : \A y \in S : x <= y
Max(S) == CHOOSE x \in S : \A y \in S : x >= y

\* mutant: the check of the largest sequence number is missing
validate_workflow_NoMax(wf_steps) ==
  LET as_set == { wf_steps[i].sequence_number : i \in 1..Len(wf_steps) }
  IN  IF wf_steps = <<>>
        THEN Exception("InvalidWorkflowError", "Workflow must have at least one step")
      ELSE IF Cardinality(as_set) # Len(wf_steps)
        THEN Exception("InvalidWorkflowError", "Duplicate sequence numbers found in workflow steps")
      ELSE IF Min(as_set) # 0
        THEN Exception("InvalidWorkflowError", "Sequence numbers must start at 0")
      ELSE NoExc

\* validate_workflow: NoExc when it returns True, the exception it raises otherwise
validate_workflow(wf_steps) ==
  LET sequence_numbers == [i \in 1..Len(wf_steps) |-> wf_steps[i].sequence_number]
      as_set == { sequence_numbers[i] : i \in 1..Len(sequence_numbers) }
  IN  IF wf_steps = <<>>
        THEN Exception("InvalidWorkflowError", "Workflow must have at least one step")
      ELSE IF Cardinality(as_set) # Len(sequence_numbers)
        THEN Exception("InvalidWorkflowError", "Duplicate sequence numbers found in workflow steps")
      ELSE IF Min(as_set) # 0
        THEN Exception("InvalidWorkflowError", "Sequence numbers must start at 0")
      ELSE IF Max(as_set) # Len(wf_steps) - 1
        THEN Exception("InvalidWorkflowError", "Sequence numbers must be consecutive")
      ELSE NoExc

\* mutant: every declared variable is required, whatever its io_type
validate_input_data_AnyIoType(variables, input) ==
  LET missing == { i \in 1..Len(variables) : variables[i].name \notin DOMAIN input }
  IN  IF missing = {} THEN NoExc
      ELSE Exception("VariableValidationError",
                     variables[Min(missing)].name \o ": Required input not provided")

\* validate_input_data: NoExc when it returns, the exception of the first
\* input variable without an entry otherwise
validate_input_data(variables, input) ==
  LET missing == { i \in 1..Len(variables) :
                     variables[i].io_type = "input" /\ variables[i].name \notin DOMAIN input }
  IN  IF missing = {} THEN NoExc
      ELSE Exception("VariableValidationError",
                     variables[Min(missing)].name \o ": Required input not provided")

-----------------------------------------------------------------------------
(* _execute_step *)

Returned(result) == [ok |-> TRUE, result |-> result, exc |-> NoExc]
Raised(e) == [ok |-> FALSE, result |-> EmptyDict, exc |-> e]

SeqToSet(q) == { q[i] : i \in 1..Len(q) }

\* the rest of a split mapping, joined again: split(".", 1)[1]
RECURSIVE JoinDots(_)
JoinDots(parts) ==
  IF Len(parts) = 1 THEN parts[1]
  ELSE parts[1] \o "." \o JoinDots(Tail(parts))

NoResolution ==
  [mapping |-> <<>>, pc |-> "init", value |-> None, times |-> 0,
   step |-> [step_type |-> "none"], called |-> FALSE, outcome |-> Returned(EmptyDict)]

\* mutant: a "step." mapping is taken as a literal
ResolveMapping_StepLiteral(param_mapping, ctx, input) ==
  IF Len(param_mapping) >= 2 /\ param_mapping[1] = "input"
    THEN Returned(Get(input, JoinDots(Tail(param_mapping))))
  ELSE Returned(JoinDots(param_mapping))

\* the value one parameter mapping resolves to (lines 651-658); a "step."
\* mapping with a single dot fails to unpack into three names
ResolveMapping(param_mapping, ctx, input) ==
  IF Len(param_mapping) >= 2 /\ param_mapping[1] = "input"
    THEN Returned(Get(input, JoinDots(Tail(param_mapping))))
  ELSE IF Len(param_mapping) >= 2 /\ param_mapping[1] = "step"
    THEN IF Len(param_mapping) = 2
           THEN Raised(Exception("ValueError", "not enough values to unpack"))
           ELSE Returned(Get(IF param_mapping[2] \in DOMAIN ctx.step_outputs
                               THEN ctx.step_outputs[param_mapping[2]] ELSE EmptyDict,
                             JoinDots(Tail(Tail(param_mapping)))))
  ELSE Returned(JoinDots(param_mapping))

MockResult(tool) ==
  [ name \in { o.name : o \in SeqToSet(tool.signature.outputs) } |->
      "Mock " \o name \o " for tool " \o tool.name ]

\* mutant: the parameter names are not checked against the signature
ExecuteAction_NoUnknownCheck(step, ctx, input) ==
  IF step.tool_id \notin DOMAIN Tools
    THEN Raised(Exception("ToolNotFoundError", step.tool_id))
  ELSE
    LET tool == Tools[step.tool_id]
        params == SeqToSet(tool.signature.parameters)
        tool_params == { p.name : p \in params }
        unknown == (DOMAIN step.parameter_mappings) \ tool_params
        unbound == { i \in 1..Len(tool.signature.parameters) :
                       /\ tool.signature.parameters[i].required
                       /\ tool.signature.parameters[i].name \notin DOMAIN step.parameter_mappings }
        failing == { n \in DOMAIN step.parameter_mappings :
                       ~ResolveMapping(step.parameter_mappings[n], ctx, input).ok }
    IN  IF unbound # {}
          THEN Raised(Exception("InvalidStepConfigurationError",
                 "Required parameter '" \o tool.signature.parameters[Min(unbound)].name
                   \o "' not provided"))
        ELSE IF failing # {}
          THEN ResolveMapping(step.parameter_mappings[CHOOSE n \in failing : TRUE], ctx, input)
        ELSE Returned(MockResult(tool))

\* _execute_step, lines 627-674: the ACTION branch
ExecuteAction(step, ctx, input) ==
  IF step.tool_id \notin DOMAIN Tools
    THEN Raised(Exception("ToolNotFoundError", step.tool_id))
  ELSE
    LET tool == Tools[step.tool_id]
        params == SeqToSet(tool.signature.parameters)
        tool_params == { p.name : p \in params }
        unknown == (DOMAIN step.parameter_mappings) \ tool_params
        unbound == { i \in 1..Len(tool.signature.parameters) :
                       /\ tool.signature.parameters[i].required
                       /\ tool.signature.parameters[i].name \notin DOMAIN step.parameter_mappings }
        failing == { n \in DOMAIN step.parameter_mappings :
                       ~ResolveMapping(step.parameter_mappings[n], ctx, input).ok }
    IN  IF unknown # {}
          THEN Raised(Exception("InvalidStepConfigurationError",
                 "Parameter '" \o (CHOOSE n \in unknown : TRUE) \o "' not found in tool signature"))
        ELSE IF unbound # {}
          THEN Raised(Exception("InvalidStepConfigurationError",
                 "Required parameter '" \o tool.signature.parameters[Min(unbound)].name
                   \o "' not provided"))
        ELSE IF failing # {}
          THEN ResolveMapping(step.parameter_mappings[CHOOSE n \in failing : TRUE], ctx, input)
        ELSE Returned(MockResult(tool))

\* mutant: a step of no known kind is skipped with an empty record
ExecuteStep_SkipUnknown(step, ctx, input) ==
  IF step.step_type = "ACTION" /\ step.tool_id # NoTool
    THEN ExecuteAction(step, ctx, input)
  ELSE IF step.step_type = "INPUT"
    THEN Returned([ output_name \in DOMAIN step.output_mappings |->
                      Get(input, step.output_mappings[output_name]) ])
  ELSE Returned(EmptyDict)

\* _execute_step(step, context)
ExecuteStep(step, ctx, input) ==
  IF step.step_type = "ACTION" /\ step.tool_id # NoTool
    THEN ExecuteAction(step, ctx, input)
  ELSE IF step.step_type = "INPUT"
    THEN Returned([ output_name \in DOMAIN step.output_mappings |->
                      Get(input, step.output_mappings[output_name]) ])
  ELSE Raised(Exception("InvalidStepConfigurationError",
                        "Unknown step type: " \o step.step_type))

\* mutant: a variable an earlier step wrote keeps its value
ApplyOutputMappings_KeepFirst(output, mappings, step_result, names) ==
  LET written == { o \in names : o \in DOMAIN step_result }
  IN  [ v \in (DOMAIN output) \cup { mappings[o] : o \in written } |->
          IF v \in DOMAIN output THEN output[v]
          ELSE step_result[CHOOSE o \in written : mappings[o] = v] ]

\* lines 595-598: copy the mapped outputs of a step result into context["output"]
RECURSIVE ApplyOutputMappings(_, _, _, _)
ApplyOutputMappings(output, mappings, step_result, names) ==
  IF names = {} THEN output
  ELSE LET output_name == CHOOSE n \in names : TRUE
           next == IF output_name \in DOMAIN step_result
                     THEN Put(output, mappings[output_name], step_result[output_name])
                     ELSE output
       IN  ApplyOutputMappings(next, mappings, step_result, names \ {output_name})

-----------------------------------------------------------------------------
(* Texts: str.replace, str.split, str.strip and str() on character sequences *)

Whitespace == {" "}

RECURSIVE LStrip(_)
LStrip(text) ==
  IF text # <<>> /\ Head(text) \in Whitespace THEN LStrip(Tail(text)) ELSE text

RECURSIVE RStrip(_)
RStrip(text) ==
  IF text # <<>> /\ text[Len(text)] \in Whitespace
    THEN RStrip(SubSeq(text, 1, Len(text) - 1))
    ELSE text

\* text.strip()
Strip(text) == RStrip(LStrip(text))

StartsWith(text, prefix) ==
  Len(text) >= Len(prefix) /\ SubSeq(text, 1, Len(prefix)) = prefix

Drop(text, n) == SubSeq(text, n + 1, Len(text))

\* mutant: only the first occurrence is replaced
Replace_First(text, old, new) ==
  LET at == { i \in 1..Len(text) : StartsWith(Drop(text, i - 1), old) }
  IN  IF at = {} THEN text
      ELSE LET i == CHOOSE j \in at : \A k \in at : j <= k
           IN  SubSeq(text, 1, i - 1) \o new \o Drop(text, i - 1 + Len(old))

\* text.replace(old, new): every occurrence, left to right, without overlap
RECURSIVE Replace(_, _, _)
Replace(text, old, new) ==
  IF Len(text) < Len(old) THEN text
  ELSE IF StartsWith(text, old)
    THEN new \o Replace(Drop(text, Len(old)), old, new)
  ELSE <<Head(text)>> \o Replace(Tail(text), old, new)

RECURSIVE SplitFrom(_, _, _)
SplitFrom(text, sep, part) ==
  IF Len(text) < Len(sep) THEN <<part \o text>>
  ELSE IF StartsWith(text, sep)
    THEN <<part>> \o SplitFrom(Drop(text, Len(sep)), sep, <<>>)
  ELSE SplitFrom(Tail(text), sep, Append(part, Head(text)))

\* text.split(sep)
Split(text, sep) == SplitFrom(text, sep, <<>>)

\* the decimal digits of a natural number
RECURSIVE Digits(_)
Digits(n) ==
  IF n < 10 THEN <<ToString(n)>> ELSE Digits(n \div 10) \o <<ToString(n % 10)>>

\* values of regular_variables (Dict[str, Any]): strings and numbers
StrValue(text) == [kind |-> "str", text |-> text, n |-> 0]
IntValue(n) == [kind |-> "int", text |-> <<>>, n |-> n]

\* str(value)
PyStr(value) == IF value.kind = "str" THEN value.text ELSE Digits(value.n)

\* f"{{{{{token_name}}}}}"
Placeholder(token_name) == <<"{", "{">> \o token_name \o <<"}", "}">>

\* f"<<file:{token_name}>>"
FileMarker(token_name) ==
  <<"<", "<", "f", "i", "l", "e", ":">> \o token_name \o <<">", ">">>

-----------------------------------------------------------------------------
(* Prompt templates, files and requests *)

NoTemplate ==
  [template_id |-> "absent", user_message_template |-> <<>>, system_message_template |-> <<>>,
   tokens |-> <<>>, output_schema |-> EmptyDict]
NoRequest == [regular_variables |-> EmptyDict, file_variables |-> EmptyDict]
NoSignature == [derived |-> FALSE, parameters |-> <<>>, outputs |-> <<>>]
NoLlmResponse == [parsed |-> FALSE, text |-> None]
NoCall ==
  [pc |-> "init", messages |-> <<>>, system |-> <<>>, calls |-> 0,
   llm_response |-> None, response |-> NoLlmResponse, exc |-> NoExc,
   signature |-> NoSignature]

\* token names
Q == <<"q">>
P == <<"p">>
F == <<"f">>
G == <<"g">>

\* the pieces user message templates are put together from
Pieces ==
  { <<" ", "a">>, Placeholder(Q), Placeholder(P),
    <<"{", "{">> \o Placeholder(Q) \o <<"}", "}">>,
    FileMarker(F), FileMarker(G), FileMarker(F) \o <<" ", "a">> }

RECURSIVE Concat(_)
Concat(seqs) == IF seqs = <<>> THEN <<>> ELSE Head(seqs) \o Concat(Tail(seqs))

UserTemplates == { Concat(ps) : ps \in UNION { [1..n -> Pieces] : n \in 0..MaxPieces } }

\* system_message_template: none (None and "" are treated alike) or a text
SystemTemplates == { <<>>, <<"s">> \o Placeholder(Q) }

\* PromptTemplate.tokens as declared, in declaration order
TokenLists ==
  LET q == [name |-> Q, type |-> "string"]
      p == [name |-> P, type |-> "string"]
      f == [name |-> F, type |-> "file"]
      g == [name |-> G, type |-> "file"]
      o == [name |-> Q, type |-> "string", required |-> FALSE]
  IN  { <<>>, <<q>>, <<q, p>>, <<p, q>>, <<f, g>>, <<g, f>>, <<o, f>> }

OutputSchemas ==
  { [type |-> "string"],
    [type |-> "object", fields |-> ("a" :> [type |-> "number"])] }

PromptTemplates ==
  { [template_id |-> "pt1", user_message_template |-> u, system_message_template |-> sy,
     tokens |-> tk, output_schema |-> os] :
      u \in UserTemplates, sy \in SystemTemplates, tk \in TokenLists, os \in OutputSchemas }

\* the rows of the files and file_images tables
Files ==
  ("F1" :> [extracted_text |-> <<"d">>,
            images |-> <<[mime_type |-> "image/png", image_data |-> "i1"]>>])
  @@ ("F2" :> [extracted_text |-> <<>>,
               images |-> <<[mime_type |-> "", image_data |-> "i2"],
                            [mime_type |-> "image/gif", image_data |-> "i3"]>>])

Requests ==
  LET regular == { EmptyDict,
                   (Q :> StrValue(P)) @@ (P :> StrValue(<<"y">>)),
                   (Q :> StrValue(Placeholder(P))) @@ (P :> StrValue(<<"y">>)),
                   (Q :> IntValue(7)) }
      files == { EmptyDict,
                 (F :> "F1") @@ (G :> "F2"),
                 (F :> "F9") @@ (G :> "F2") }
  IN  { [regular_variables |-> rv, file_variables |-> fv] : rv \in regular, fv \in files }

\* what the LLM client answers
LlmResponses == { "oops", "{\"a\": 1}", "4" }

-----------------------------------------------------------------------------
(* routers/tools.py *)

HTTPException(status_code, text, arg) ==
  [status_code |-> status_code, detail |-> [text |-> text, arg |-> arg]]

\* except Exception as e: raise HTTPException(status_code=500, detail=str(e)),
\* str(e) of an HTTPException being "<status_code>: <detail>"
Wrapped(e) ==
  HTTPException(500, ToString(e.status_code) \o ": " \o e.detail.text, e.detail.arg)

TextPart(text) == [type |-> "text", text |-> text, source |-> None]

\* base64.b64encode(image.image_data).decode('utf-8')
Base64(image_data) == "b64:" \o image_data

ImagePart(image) ==
  [type |-> "image", text |-> <<>>,
   source |-> [type |-> "base64",
               media_type |-> IF image.mime_type # "" THEN image.mime_type ELSE "image/jpeg",
               data |-> Base64(image.image_data)]]

Compiled(content_parts) == [ok |-> TRUE, content_parts |-> content_parts, exc |-> NoExc]
Failed(e) == [ok |-> FALSE, content_parts |-> <<>>, exc |-> e]

\* the text part of a stretch of template text, if it is not blank
WithText(content_parts, text) ==
  IF Strip(text) # <<>> THEN Append(content_parts, TextPart(Strip(text))) ELSE content_parts

\* line 103: current_text = parts[1] if len(parts) > 1 else ""
Remainder(parts, sep) == IF Len(parts) > 1 THEN parts[2] ELSE <<>>

\* the loop of process_template_with_files (lines 57-103) and the remaining
\* text (lines 105-110)
RECURSIVE ProcessFileTokens(_, _, _, _)
ProcessFileTokens(file_tokens, file_variables, content_parts, current_text) ==
  IF file_tokens = <<>> THEN Compiled(WithText(content_parts, current_text))
  ELSE
    LET token_name == Head(file_tokens).name
    IN  IF token_name \notin DOMAIN file_variables
          THEN Failed(HTTPException(400, "Missing required file token: ", token_name))
        ELSE
          LET parts == Split(current_text, FileMarker(token_name))
              before == WithText(content_parts, parts[1])
              file_id == file_variables[token_name]
          IN  IF file_id \notin DOMAIN Files
                THEN Failed(HTTPException(404, "File not found: ", file_id))
              ELSE
                LET file == Files[file_id]
                    with_text == IF file.extracted_text # <<>>
                                   THEN Append(before, TextPart(file.extracted_text))
                                   ELSE before
                    with_images == with_text \o
                      [i \in 1..Len(file.images) |-> ImagePart(file.images[i])]
                IN  ProcessFileTokens(Tail(file_tokens), file_variables, with_images,
                                      Remainder(parts, FileMarker(token_name)))

\* process_template_with_files(user_message, system_message, file_tokens, file_variables, db)
process_template_with_files(user_message, file_tokens, file_variables) ==
  ProcessFileTokens(file_tokens, file_variables, <<>>, user_message)

\* [t for t in tokens if t['type'] == type]
RECURSIVE TokensOfType(_, _)
TokensOfType(tokens, type) ==
  IF tokens = <<>> THEN <<>>
  ELSE IF Head(tokens).type = type
    THEN <<Head(tokens)>> \o TokensOfType(Tail(tokens), type)
  ELSE TokensOfType(Tail(tokens), type)

\* lines 285-291: the string tokens are replaced one after the other, in
\* declaration order
RECURSIVE ReplaceStringTokens(_, _, _)
ReplaceStringTokens(text, string_tokens, regular_variables) ==
  IF string_tokens = <<>> THEN text
  ELSE ReplaceStringTokens(
         Replace(text, Placeholder(Head(string_tokens).name),
                 PyStr(regular_variables[Head(string_tokens).name])),
         Tail(string_tokens), regular_variables)

\* mutant: only the string tokens are checked
MissingToken_StringOnly(tokens, req) ==
  LET missing == { i \in 1..Len(tokens) :
                     tokens[i].type = "string"
                       /\ tokens[i].name \notin DOMAIN req.regular_variables }
  IN  IF missing = {} THEN NoExc
      ELSE HTTPException(400, "Missing required string token: ", tokens[Min(missing)].name)

\* lines 267-278: the exception of the first declared token without a value,
\* NoExc when every token has one
MissingToken(tokens, req) ==
  LET missing == { i \in 1..Len(tokens) :
                     \/ tokens[i].type = "string"
                          /\ tokens[i].name \notin DOMAIN req.regular_variables
                     \/ tokens[i].type = "file"
                          /\ tokens[i].name \notin DOMAIN req.file_variables }
      first == tokens[Min(missing)]
  IN  IF missing = {} THEN NoExc
      ELSE IF first.type = "string"
        THEN HTTPException(400, "Missing required string token: ", first.name)
      ELSE HTTPException(400, "Missing required file token: ", first.name)

\* the content of a message is a list of parts or a string
PartsContent(content_parts) == [kind |-> "parts", parts |-> content_parts, text |-> <<>>]
StrContent(text) == [kind |-> "str", parts |-> <<>>, text |-> text]

\* lines 280-315: the messages and the system text sent to the LLM client
CompileMessages(tpl, req) ==
  LET string_tokens == TokensOfType(tpl.tokens, "string")
      user_message == ReplaceStringTokens(tpl.user_message_template, string_tokens,
                                          req.regular_variables)
      system_message == IF tpl.system_message_template # <<>>
                          THEN ReplaceStringTokens(tpl.system_message_template, string_tokens,
                                                   req.regular_variables)
                          ELSE tpl.system_message_template
      processed == process_template_with_files(user_message, TokensOfType(tpl.tokens, "file"),
                                               req.file_variables)
  IN  IF ~processed.ok
        THEN [ok |-> FALSE, messages |-> <<>>, system |-> <<>>, exc |-> Wrapped(processed.exc)]
      ELSE [ok |-> TRUE,
            messages |-> <<[role |-> "user",
                            content |-> IF processed.content_parts # <<>>
                                          THEN PartsContent(processed.content_parts)
                                          ELSE StrContent(user_message)]>>,
            system |-> system_message,
            exc |-> NoExc]

\* json.loads succeeds on the answer
IsJson(text) == text \in { "{\"a\": 1}", "4" }

\* str(e) of the JSONDecodeError of a text that starts with no JSON value
JSONDecodeErrorStr(text) == "Expecting value: line 1 column 1 (char 0)"

\* lines 328-331 and 339-340
InvalidJson(llm_response) ==
  Wrapped(HTTPException(422, "LLM response was not valid JSON: ",
                        JSONDecodeErrorStr(llm_response)))

-----------------------------------------------------------------------------
(* _get_llm_signature *)

\* dict.get(key, default) on a token
TokenGet(token, key, default) == IF key \in DOMAIN token THEN token[key] ELSE default

\* mutant: every parameter is required
Parameter_Required(token) ==
  [name |-> token.name,
   schema |-> [name |-> token.name,
               type |-> IF TokenGet(token, "type", "string") = "string"
                          THEN "string" ELSE "file",
               is_array |-> FALSE],
   required |-> TRUE]

\* lines 716-735: the parameter of one token
Parameter(token) ==
  [name |-> token.name,
   schema |-> [name |-> token.name,
               type |-> IF TokenGet(token, "type", "string") = "string"
                          THEN "string" ELSE "file",
               is_array |-> FALSE],
   required |-> TokenGet(token, "required", TRUE)]

\* mutant: a missing template keeps the response output
MissingTemplateSignature_Response ==
  [derived |-> TRUE, parameters |-> <<>>,
   outputs |-> <<[name |-> "response", type |-> "string"]>>]

\* lines 701-703
MissingTemplateSignature == [derived |-> TRUE, parameters |-> <<>>, outputs |-> <<>>]

\* _get_llm_signature(prompt_template_id)
get_llm_signature(tpl) ==
  IF tpl = NoTemplate THEN MissingTemplateSignature
  ELSE [derived |-> TRUE,
        parameters |-> [i \in 1..Len(tpl.tokens) |-> Parameter(tpl.tokens[i])],
        outputs |-> <<[name |-> "response",
                       type |-> TokenGet(tpl.output_schema, "type", "string")]>>]

-----------------------------------------------------------------------------
(* The operations *)

NoContext == [output |-> EmptyDict, step_outputs |-> EmptyDict]
NoObject == [status |-> "none", error |-> None]

\* mutant: the status assignment of line 571 is lost
MarkRunning_Lost(wf) == wf

\* lines 571-573: workflow.status = "running"
MarkRunning(wf) == [wf EXCEPT !.status = "running"]

\* lines 601-603: workflow.status = "completed"
MarkCompleted(wf) == [wf EXCEPT !.status = "completed"]

\* mutant: the except clause records the error under the status completed
MarkFailed_AsCompleted(wf, e) == [wf EXCEPT !.status = "completed", !.error = Str(e)]

\* lines 613-616: workflow.status = "failed", workflow.error = str(e)
MarkFailed(wf, e) == [wf EXCEPT !.status = "failed", !.error = Str(e)]

\* lines 605-610
CompletedResponse(ctx_output) ==
  [status |-> "completed", output |-> ctx_output, error |-> None]

\* mutant: the response masks the error text
FailedResponse_Masked(e) ==
  [status |-> "failed", output |-> EmptyDict, error |-> "Workflow execution failed"]

\* lines 617-623
FailedResponse(e) ==
  [status |-> "failed", output |-> EmptyDict, error |-> Str(e)]

\* mutant: the loop runs the same step again
NextIndex_Retry(i) == i

\* line 589: the for loop takes the next of the ordered steps
NextIndex(i) == i + 1

\* the concurrent execute_workflow calls
Runs == {1, 2}

\* a call that has not begun
NoRun ==
  [pc |-> "init", input_data |-> EmptyDict, workflow |-> NoObject, steps |-> <<>>,
   idx |-> 0, context |-> NoContext, response |-> NoResponse, exc |-> NoExc]

NoRuns == [r \in Runs |-> NoRun]

Init ==
  /\ db = NoWorkflow
  /\ pc = "idle"
  /\ input_data = EmptyDict
  /\ workflow = NoObject
  /\ steps = <<>>
  /\ idx = 0
  /\ context = NoContext
  /\ executed = <<>>
  /\ response = NoResponse
  /\ exc = NoExc
  /\ template = NoTemplate
  /\ request = NoRequest
  /\ llm = NoCall
  /\ resolution = NoResolution
  /\ runs = NoRuns

\* create_workflow(workflow_data, user_id)
CreateWorkflow ==
  /\ pc = "idle"
  /\ db = NoWorkflow
  /\ \E step_list \in StepLists, state \in VariableLists, status \in Statuses :
       db' = [steps |-> [i \in 1..Len(step_list) |-> WorkflowStep(step_list[i], i)],
              variables |-> state,
              status |-> status,
              error |-> None]
  /\ UNCHANGED <<pc, input_data, workflow, steps, idx, context, executed, response, exc>>
  /\ UNCHANGED llmvars
  /\ UNCHANGED resvars
  /\ UNCHANGED runvars

\* add_step(workflow_id, step_data, user_id); a tool_id that names no tool
\* raises ToolNotFoundError and stores nothing
\* (edits are taken between runs: a run keeps the steps it loaded)
AddStep ==
  /\ pc = "idle"
  /\ db # NoWorkflow
  /\ Len(db.steps) < MaxSteps
  /\ \E step_data \in StepData :
       /\ step_data.shape.tool_id # NoTool => step_data.shape.tool_id \in DOMAIN Tools
       /\ db' = [db EXCEPT !.steps = Append(@, WorkflowStep(step_data, Len(@) + 1))]
  /\ UNCHANGED <<pc, input_data, workflow, steps, idx, context, executed, response, exc>>
  /\ UNCHANGED llmvars
  /\ UNCHANGED resvars
  /\ UNCHANGED runvars

\* update_workflow, lines 389-393: setattr(workflow, key, value) for every key
\* of the update data other than steps, inputs and outputs
SetBasicProps(wf, update_data) ==
  IF "status" \in DOMAIN update_data
    THEN [wf EXCEPT !.status = update_data.status]
    ELSE wf

\* update_workflow, lines 396-438: the stored steps are deleted and the sent
\* ones stored with sequence_number = idx of enumerate
ReplaceSteps(wf, update_data) ==
  IF "steps" \in DOMAIN update_data
    THEN [wf EXCEPT !.steps =
            [i \in 1..Len(update_data.steps) |->
               WorkflowStep([shape |-> update_data.steps[i], sequence_number |-> i - 1], i)]]
    ELSE wf

\* update_workflow, lines 441-463: the stored variables are replaced when
\* workflow_data.state is not None
ReplaceState(wf, update_data) ==
  IF "state" \in DOMAIN update_data
    THEN [wf EXCEPT !.variables = update_data.state]
    ELSE wf

\* the update data a caller sends: the fields it sets
UpdateData ==
  { [status |-> st] : st \in Statuses }
    \cup { [steps |-> sl] : sl \in ShapeLists }
    \cup { [state |-> vl] : vl \in VariableLists }

\* update_workflow(workflow_id, workflow_data, user_id)
UpdateWorkflow ==
  /\ pc = "idle"
  /\ db # NoWorkflow
  /\ \E update_data \in UpdateData :
       db' = ReplaceState(ReplaceSteps(SetBasicProps(db, update_data), update_data),
                          update_data)
  /\ UNCHANGED <<pc, input_data, workflow, steps, idx, context, executed, response, exc>>
  /\ UNCHANGED llmvars
  /\ UNCHANGED resvars
  /\ UNCHANGED runvars

\* execute_workflow, lines 562-586: get_workflow, the two validations, the
\* status assignment, the context and the ordered steps
StartRun ==
  /\ pc = "idle"
  /\ db # NoWorkflow
  /\ \E input \in InputMaps :
       LET structure == validate_workflow(db.steps)
           inputs == validate_input_data(db.variables, input)
           loaded == [status |-> db.status, error |-> db.error]
       IN  /\ input_data' = input
           /\ executed' = <<>>
           /\ response' = NoResponse
           /\ context' = NoContext
           /\ IF structure # NoExc
                THEN /\ pc' = "raised"
                     /\ exc' = structure
                     /\ workflow' = loaded
                     /\ UNCHANGED <<steps, idx>>
              ELSE IF inputs # NoExc
                THEN /\ pc' = "raised"
                     /\ exc' = inputs
                     /\ workflow' = loaded
                     /\ UNCHANGED <<steps, idx>>
              ELSE /\ pc' = "running"
                   /\ exc' = NoExc
                   /\ workflow' = MarkRunning(loaded)
                   /\ steps' = OrderBySequenceNumber(db.steps)
                   /\ idx' = 1
  /\ UNCHANGED db
  /\ UNCHANGED llmvars
  /\ UNCHANGED resvars
  /\ UNCHANGED runvars

\* execute_workflow, lines 589-623: one iteration of the step loop; the last
\* iteration goes on to the completed response, a raising one to the except clause
RunStep ==
  /\ pc = "running"
  /\ LET step == steps[idx]
         r == ExecuteStep(step, context, input_data)
         output == ApplyOutputMappings(context.output, step.output_mappings,
                                       r.result, DOMAIN step.output_mappings)
     IN  /\ executed' = Append(executed, step.sequence_number)
         /\ IF ~r.ok
              THEN /\ workflow' = MarkFailed(workflow, r.exc)
                   /\ response' = FailedResponse(r.exc)
                   /\ pc' = "returned"
                   /\ UNCHANGED <<context, idx>>
            ELSE /\ context' = [output |-> output,
                                step_outputs |-> Put(context.step_outputs, step.step_id, r.result)]
                 /\ IF idx < Len(steps)
                      THEN /\ idx' = NextIndex(idx)
                           /\ UNCHANGED <<workflow, response, pc>>
                      ELSE /\ workflow' = MarkCompleted(workflow)
                           /\ response' = CompletedResponse(output)
                           /\ pc' = "returned"
                           /\ UNCHANGED idx
  /\ UNCHANGED <<db, input_data, steps, exc>>
  /\ UNCHANGED llmvars
  /\ UNCHANGED resvars
  /\ UNCHANGED runvars

\* the caller (routers/workflow.py execute_workflow) has the response or the
\* exception; the service is ready for the next call
Return ==
  /\ pc \in {"returned", "raised"}
  /\ pc' = "idle"
  /\ input_data' = EmptyDict
  /\ workflow' = NoObject
  /\ steps' = <<>>
  /\ idx' = 0
  /\ context' = NoContext
  /\ executed' = <<>>
  /\ response' = NoResponse
  /\ exc' = NoExc
  /\ UNCHANGED db
  /\ UNCHANGED llmvars
  /\ UNCHANGED resvars
  /\ UNCHANGED runvars

Next == CreateWorkflow \/ AddStep \/ UpdateWorkflow \/ StartRun \/ RunStep \/ Return

Spec == Init /\ [][Next]_vars

\* every await of a step's call returns, and the caller takes the response
FairSpec == Spec /\ WF_vars(RunStep) /\ WF_vars(Return)

\* execute_llm, lines 260-315: the template, the check of the tokens, the
\* compiled messages and the call of the LLM client
ExecuteLlm ==
  /\ llm.pc = "init"
  /\ llm' =
       IF template = NoTemplate
         THEN [llm EXCEPT !.pc = "raised", !.exc = HTTPException(404, "Template not found", "")]
       ELSE IF MissingToken(template.tokens, request) # NoExc
         THEN [llm EXCEPT !.pc = "raised", !.exc = MissingToken(template.tokens, request)]
       ELSE LET compiled == CompileMessages(template, request)
            IN  IF ~compiled.ok
                  THEN [llm EXCEPT !.pc = "raised", !.exc = compiled.exc]
                  ELSE [llm EXCEPT !.pc = "sent", !.messages = compiled.messages,
                                   !.system = compiled.system, !.calls = @ + 1]
  /\ UNCHANGED <<template, request>>
  /\ UNCHANGED wfvars
  /\ UNCHANGED resvars
  /\ UNCHANGED runvars

\* execute_llm, lines 317-337: the answer of the LLM client, parsed when the
\* output schema is an object
LlmResponds ==
  /\ llm.pc = "sent"
  /\ \E llm_response \in LlmResponses :
       llm' =
         IF template.output_schema.type = "object" /\ ~IsJson(llm_response)
           THEN [llm EXCEPT !.pc = "raised", !.llm_response = llm_response,
                            !.exc = InvalidJson(llm_response)]
           ELSE [llm EXCEPT !.pc = "returned", !.llm_response = llm_response,
                            !.response = [parsed |-> template.output_schema.type = "object",
                                          text |-> llm_response]]
  /\ UNCHANGED <<template, request>>
  /\ UNCHANGED wfvars
  /\ UNCHANGED resvars
  /\ UNCHANGED runvars

\* send_messages raises (ai_service.py lines 1186-1188) and execute_llm wraps it
LlmFails ==
  /\ llm.pc = "sent"
  /\ llm' = [llm EXCEPT !.pc = "raised", !.exc = HTTPException(500, "provider error", "")]
  /\ UNCHANGED <<template, request>>
  /\ UNCHANGED wfvars
  /\ UNCHANGED resvars
  /\ UNCHANGED runvars

\* _get_llm_signature for the template, taken before the call
GetLlmSignature ==
  /\ llm.pc = "init"
  /\ ~llm.signature.derived
  /\ llm' = [llm EXCEPT !.signature = get_llm_signature(template)]
  /\ UNCHANGED <<template, request>>
  /\ UNCHANGED wfvars
  /\ UNCHANGED resvars
  /\ UNCHANGED runvars

LlmInit ==
  /\ db = NoWorkflow
  /\ pc = "idle"
  /\ input_data = EmptyDict
  /\ workflow = NoObject
  /\ steps = <<>>
  /\ idx = 0
  /\ context = NoContext
  /\ executed = <<>>
  /\ response = NoResponse
  /\ exc = NoExc
  /\ template \in PromptTemplates \cup {NoTemplate}
  /\ request \in Requests
  /\ llm = NoCall
  /\ resolution = NoResolution
  /\ runs = NoRuns

LlmNext == ExecuteLlm \/ LlmResponds \/ LlmFails \/ GetLlmSignature

LlmSpec == LlmInit /\ [][LlmNext]_vars

-----------------------------------------------------------------------------
(* Resolution of one parameter mapping against one context *)

\* the parameter mappings a step can carry, split at their dots
MappingExpressions ==
  { <<"input", "echo">>, <<"input", "a", "b">>, <<"input">>,
    <<"step", "s1", "response">>, <<"step", "s2", "response">>,
    <<"step", "s1">>, <<"step">>, <<"hello">>, <<"a", "b">> }

\* the inputs and the step outputs a run can hold when a mapping is resolved
ResolutionInputs ==
  InputMaps \cup { ("a.b" :> "dotted") }

ResolutionStepOutputs ==
  { EmptyDict,
    ("s1" :> MockResult(Tools["t1"])),
    ("s1" :> EmptyDict) @@ ("s2" :> MockResult(Tools["t1"])) }

\* the ACTION steps _execute_step can be called for
ActionSteps ==
  LET step(tool_id, mappings) ==
        [step_id |-> "s9", step_type |-> "ACTION", tool_id |-> tool_id,
         parameter_mappings |-> mappings, output_mappings |-> ("response" :> "answer"),
         evaluation_config |-> DefaultEvaluationConfig, sequence_number |-> 0]
  IN  { step("t1", ("q" :> InputEcho)),
        step("t1", EmptyDict),
        step("t1", ("q" :> InputEcho) @@ ("zz" :> <<"hello">>)),
        step("t1", ("zz" :> <<"step", "s1">>)),
        step("t1", ("q" :> <<"step", "s1">>)),
        step("t1", ("q" :> <<"step", "s1", "response">>)),
        step("t2", ("q" :> <<"hello">>)),
        step("t2", ("r" :> <<"hello">>)),
        step("t9", ("q" :> InputEcho)),
        step(NoTool, ("q" :> InputEcho)) }

\* _execute_step(step, context) called once for a step
ExecuteStepOnce ==
  /\ ~resolution.called
  /\ resolution' = [resolution EXCEPT
                      !.called = TRUE,
                      !.outcome = ExecuteStep(resolution.step, context, input_data)]
  /\ UNCHANGED wfvars
  /\ UNCHANGED llmvars
  /\ UNCHANGED runvars

\* lines 647-661: one pass of the loop that prepares the tool parameters,
\* for one mapping
ResolveParameter ==
  /\ resolution.times < MaxResolutions
  /\ LET r == ResolveMapping(resolution.mapping, context, input_data)
     IN  resolution' = [resolution EXCEPT !.pc = IF r.ok THEN "returned" ELSE "raised",
                                          !.value = IF r.ok THEN r.result ELSE r.exc.msg,
                                          !.times = @ + 1]
  /\ UNCHANGED wfvars
  /\ UNCHANGED llmvars
  /\ UNCHANGED runvars

ResolveInit ==
  /\ db = NoWorkflow
  /\ pc = "idle"
  /\ input_data \in ResolutionInputs
  /\ workflow = NoObject
  /\ steps = <<>>
  /\ idx = 0
  /\ context \in { [output |-> EmptyDict, step_outputs |-> so] : so \in ResolutionStepOutputs }
  /\ executed = <<>>
  /\ response = NoResponse
  /\ exc = NoExc
  /\ template = NoTemplate
  /\ request = NoRequest
  /\ llm = NoCall
  /\ resolution \in { [NoResolution EXCEPT !.mapping = m, !.step = st] :
                         m \in MappingExpressions, st \in ActionSteps }
  /\ runs = NoRuns

ResolveNext == ResolveParameter \/ ExecuteStepOnce

ResolveSpec == ResolveInit /\ [][ResolveNext]_vars

\* ---------------------------------------------------------------------------
\* Two execute_workflow calls for the same workflow, interleaved at the
\* `await self._execute_step(...)` of line 591
\* ---------------------------------------------------------------------------

\* the workflows create_workflow stored before the calls: INPUT steps and ACTION
\* steps with a tool, sequence numbers 0..N-1, status draft
StoredWorkflows ==
  { [steps |-> [i \in 1..Len(shapes) |->
                  WorkflowStep([shape |-> shapes[i], sequence_number |-> i - 1], i)],
     variables |-> state,
     status |-> "draft",
     error |-> None] : shapes \in ShapeLists, state \in VariableLists }

\* execute_workflow, lines 560-587, of call r: get_workflow builds the call's
\* own WorkflowResponse from the stored row
BeginRun ==
  /\ \E r \in Runs, input \in InputMaps :
       LET structure == validate_workflow(db.steps)
           inputs == validate_input_data(db.variables, input)
           loaded == [status |-> db.status, error |-> db.error]
       IN  /\ runs[r].pc = "init"
           /\ runs' = [runs EXCEPT ![r] =
                IF structure # NoExc
                  THEN [NoRun EXCEPT !.pc = "raised", !.input_data = input,
                                     !.workflow = loaded, !.exc = structure]
                ELSE IF inputs # NoExc
                  THEN [NoRun EXCEPT !.pc = "raised", !.input_data = input,
                                     !.workflow = loaded, !.exc = inputs]
                ELSE [NoRun EXCEPT !.pc = "running", !.input_data = input,
                                   !.workflow = MarkRunning(loaded),
                                   !.steps = OrderBySequenceNumber(db.steps),
                                   !.idx = 1]]
  /\ UNCHANGED wfvars
  /\ UNCHANGED llmvars
  /\ UNCHANGED resvars

\* execute_workflow, lines 589-623, of call r: one iteration of the step loop
StepRun ==
  /\ \E r \in Runs :
       LET run == runs[r]
           step == run.steps[run.idx]
           res == ExecuteStep(step, run.context, run.input_data)
           output == ApplyOutputMappings(run.context.output, step.output_mappings,
                                         res.result, DOMAIN step.output_mappings)
       IN  /\ run.pc = "running"
           /\ runs' = [runs EXCEPT ![r] =
                IF ~res.ok
                  THEN [run EXCEPT !.workflow = MarkFailed(run.workflow, res.exc),
                                   !.response = FailedResponse(res.exc),
                                   !.pc = "returned"]
                ELSE IF run.idx < Len(run.steps)
                  THEN [run EXCEPT !.context =
                                     [output |-> output,
                                      step_outputs |-> Put(run.context.step_outputs,
                                                           step.step_id, res.result)],
                                   !.idx = NextIndex(run.idx)]
                ELSE [run EXCEPT !.context =
                                   [output |-> output,
                                    step_outputs |-> Put(run.context.step_outputs,
                                                         step.step_id, res.result)],
                                 !.workflow = MarkCompleted(run.workflow),
                                 !.response = CompletedResponse(output),
                                 !.pc = "returned"]]
  /\ UNCHANGED wfvars
  /\ UNCHANGED llmvars
  /\ UNCHANGED resvars

ConcurrentInit ==
  /\ db \in StoredWorkflows
  /\ pc = "idle"
  /\ input_data = EmptyDict
  /\ workflow = NoObject
  /\ steps = <<>>
  /\ idx = 0
  /\ context = NoContext
  /\ executed = <<>>
  /\ response = NoResponse
  /\ exc = NoExc
  /\ template = NoTemplate
  /\ request = NoRequest
  /\ llm = NoCall
  /\ resolution = NoResolution
  /\ runs = NoRuns

ConcurrentNext == BeginRun \/ StepRun

ConcurrentSpec == ConcurrentInit /\ [][ConcurrentNext]_vars

-----------------------------------------------------------------------------
(* The claims *)

InRun == pc \in {"running", "returned"}

SequenceNumbers(rows) == { rows[i].sequence_number : i \in 1..Len(rows) }

\* the sequence numbers of N rows are exactly 0..N-1
DenseSequenceNumbers(rows) == SequenceNumbers(rows) = 0..(Len(rows) - 1)

\* C1: a run that passed validation has status running before its first step
\* and for as long as steps execute, and it ends, completed or failed, with the
\* same status in the response, when every step's call returns.
C1_RunningUntilTerminal ==
  /\ [](pc = "running" => workflow.status = "running")
  /\ [](pc = "returned" => /\ workflow.status \in {"completed", "failed"}
                           /\ response.status = workflow.status)
  /\ (pc = "running" ~> pc = "returned")

C1_Witness ==
  /\ pc = "returned"
  /\ workflow.status = "completed"
  /\ Len(executed) = 2

\* C2: when the step of the current loop iteration raises, the run ends there:
\* the workflow is failed with the exception's message, the response is failed
\* with the same text and an empty output, and no further step executes.
C2_FailureStopsRun ==
  /\ [][ (pc = "running" /\ ~ExecuteStep(steps[idx], context, input_data).ok) =>
           LET e == ExecuteStep(steps[idx], context, input_data).exc
           IN  /\ pc' = "returned"
               /\ executed' = Append(executed, steps[idx].sequence_number)
               /\ workflow'.status = "failed"
               /\ workflow'.error = e.msg
               /\ response' = [status |-> "failed", output |-> EmptyDict, error |-> e.msg]
       ]_vars
  /\ [][ pc = "returned" => pc' = "idle" ]_vars

C2_Witness ==
  /\ pc = "returned"
  /\ response.status = "failed"
  /\ response.error = "Required parameter 'q' not provided"
  /\ Len(executed) = 1
  /\ Len(steps) = 2

\* C3: execute_workflow on a workflow with steps raises InvalidWorkflowError,
\* with the status not running and no step executed, when the sequence numbers
\* are not exactly 0..N-1, and does not raise it when they are.
C3_SequenceValidation ==
  (pc # "idle" /\ db.steps # <<>>) =>
    /\ ~DenseSequenceNumbers(db.steps) =>
         /\ pc = "raised"
         /\ exc.cls = "InvalidWorkflowError"
         /\ workflow.status # "running"
         /\ executed = <<>>
    /\ DenseSequenceNumbers(db.steps) => exc.cls # "InvalidWorkflowError"

C3_Witness ==
  /\ pc = "raised"
  /\ exc = Exception("InvalidWorkflowError", "Sequence numbers must be consecutive")
  /\ SequenceNumbers(db.steps) = {0, 2}

OnlyInputAndAction(rows) ==
  \A i \in 1..Len(rows) : rows[i].step_type \in {"INPUT", "ACTION"}

\* C5: in a run of a workflow of INPUT and ACTION steps, the steps execute in
\* ascending sequence_number order, each once, and a run no step of which
\* failed has executed every step.
C5_EachStepOnceInOrder ==
  (InRun /\ OnlyInputAndAction(db.steps)) =>
    /\ executed = [i \in 1..Len(executed) |-> i - 1]
    /\ (pc = "returned" /\ response.status = "completed") => Len(executed) = Len(db.steps)

C5_Witness ==
  /\ pc = "returned"
  /\ response.status = "completed"
  /\ OnlyInputAndAction(db.steps)
  /\ Len(db.steps) = 2
  /\ db.steps[1].sequence_number = 1
  /\ db.steps[1].step_type = "ACTION"
  /\ executed = <<0, 1>>

\* C6: after an INPUT step, every variable its output_mappings name holds the
\* input value stored under the mapping's output name, None when the input has
\* no such key; a single INPUT step completes the run with these values.
C6_InputStepCopiesInput ==
  (InRun /\ executed # <<>> /\ steps[Len(executed)].step_type = "INPUT") =>
    LET step == steps[Len(executed)]
    IN  /\ \A output_name \in DOMAIN step.output_mappings :
             Get(context.output, step.output_mappings[output_name])
               = Get(input_data, output_name)
        /\ Len(steps) = 1 => (pc = "returned" /\ response.status = "completed")

DeclaredOutputs(variables) ==
  { variables[i].name : i \in { j \in 1..Len(variables) : variables[j].io_type = "output" } }

\* C7: the output map of a completed run holds exactly the variables declared
\* with io_type=output.
C7_OutputMapIsDeclaredOutputs ==
  (pc = "returned" /\ response.status = "completed") =>
    DOMAIN response.output = DeclaredOutputs(db.variables)

\* the variables an EVALUATION step reads (spec 4.5 step 3): the input values,
\* overwritten by what output_mappings stored
RunVariables ==
  [ n \in (DOMAIN input_data) \cup (DOMAIN context.output) |->
      IF n \in DOMAIN context.output THEN context.output[n] ELSE input_data[n] ]

\* spec 4.4, operators equals and not_equals
ConditionMatches(c, variables) ==
  \/ c.operator = "equals" /\ Get(variables, c.variable) = c.value
  \/ c.operator = "not_equals" /\ Get(variables, c.variable) # c.value

\* the position of the first matching condition, 0 when none matches
FirstMatch(conditions, variables) ==
  LET matching == { i \in 1..Len(conditions) : ConditionMatches(conditions[i], variables) }
  IN  IF matching = {} THEN 0 ELSE Min(matching)

Count(q, x) == Cardinality({ i \in 1..Len(q) : q[i] = x })

\* C8: a run whose last step is an EVALUATION step with default_action end and
\* a first condition that matches throughout and targets an earlier or the same
\* step, all other steps being INPUT steps, evaluates that step
\* maximum_jumps + 1 times (maximum_jumps jumps, then default_action) and completes.
C8_JumpsThenDefaultAction ==
  (pc = "returned" /\ steps[Len(steps)].step_type = "EVALUATION") =>
    LET last == steps[Len(steps)]
        config == last.evaluation_config
    IN  ( /\ \A j \in 1..(Len(steps) - 1) : steps[j].step_type = "INPUT"
          /\ config.default_action = "end"
          /\ config.conditions # <<>>
          /\ ConditionMatches(config.conditions[1], RunVariables)
          /\ config.conditions[1].target_step_index <= last.sequence_number )
        => /\ Count(executed, last.sequence_number) = config.maximum_jumps + 1
           /\ response.status = "completed"

RECURSIVE SumMaximumJumps(_)
SumMaximumJumps(rows) ==
  IF rows = <<>> THEN 0
  ELSE (IF Head(rows).step_type = "EVALUATION"
          THEN Head(rows).evaluation_config.maximum_jumps ELSE 0)
       + SumMaximumJumps(Tail(rows))

\* C9: a run executes at most N + sum(maximum_jumps of the EVALUATION steps) steps.
C9_StepExecutionBound ==
  InRun => Len(executed) <= Len(steps) + SumMaximumJumps(steps)

C9_Witness ==
  /\ pc = "returned"
  /\ Len(steps) = 2
  /\ Len(executed) = 2
  /\ steps[2].step_type = "EVALUATION"

\* C10: an EVALUATION step decides by its first matching condition (a jump to
\* its target while jumps remain); when none matches, default_action continue
\* goes on with the next step and end completes the run at this step.
C10_ControlDecision ==
  [][ (pc = "running" /\ steps[idx].step_type = "EVALUATION") =>
        LET config == steps[idx].evaluation_config
            m == FirstMatch(config.conditions, RunVariables)
        IN  IF m # 0
              THEN (config.maximum_jumps > 0 /\ Count(executed, steps[idx].sequence_number) = 0)
                     => (pc' = "running" /\ idx' = config.conditions[m].target_step_index + 1)
            ELSE IF config.default_action = "end"
              THEN /\ pc' = "returned"
                   /\ response'.status = "completed"
                   /\ executed' = Append(executed, steps[idx].sequence_number)
            ELSE (idx < Len(steps)) => (pc' = "running" /\ idx' = idx + 1)
    ]_vars

\* some condition of an EVALUATION step targets an index outside 0..N-1
DanglingTarget(wf_steps) ==
  \E i \in 1..Len(wf_steps) :
    /\ wf_steps[i].step_type = "EVALUATION"
    /\ \E j \in 1..Len(wf_steps[i].evaluation_config.conditions) :
         wf_steps[i].evaluation_config.conditions[j].target_step_index
           \notin 0..(Len(wf_steps) - 1)

\* C11: execute_workflow rejects with InvalidWorkflowError, before the status
\* changes and before any step executes, every workflow in which some
\* EVALUATION condition's target_step_index is not one of 0..N-1.
C11_TargetValidation ==
  (pc # "idle" /\ DanglingTarget(db.steps))
    => /\ pc = "raised"
       /\ exc.cls = "InvalidWorkflowError"
       /\ workflow.status # "running"
       /\ executed = <<>>

\* a step of execute_workflow: the call starts, runs a step or returns
ExecuteWorkflowStep == pc # "idle" \/ pc' # "idle"

\* C12: once the status of a workflow is completed or failed it never changes
\* again, whatever operation comes later (another execute_workflow or an
\* update_workflow included).
C12_TerminalStatusFinal ==
  [][db.status \in {"completed", "failed"} => db'.status = db.status]_vars

\* C13: the status of an existing workflow changes only through
\* execute_workflow: no update_workflow or add_step changes it.
C13_StatusOnlyByExecute ==
  [][(db # NoWorkflow /\ db'.status # db.status) => ExecuteWorkflowStep]_vars

\* the mapping names an input key that is absent, a step without recorded
\* outputs, or an output the step did not produce
UnresolvedBinding(param_mapping, ctx, input) ==
  \/ /\ Len(param_mapping) >= 2
     /\ param_mapping[1] = "input"
     /\ JoinDots(Tail(param_mapping)) \notin DOMAIN input
  \/ /\ Len(param_mapping) >= 3
     /\ param_mapping[1] = "step"
     /\ \/ param_mapping[2] \notin DOMAIN ctx.step_outputs
        \/ JoinDots(Tail(Tail(param_mapping))) \notin DOMAIN ctx.step_outputs[param_mapping[2]]

\* C14: resolving a parameter mapping that names an absent input key, a step
\* not yet executed or an output that step did not produce fails with an
\* unresolved-binding error: the step never goes on with a null value.
C14_UnresolvedBindingFails ==
  [][(/\ pc = "running"
      /\ steps[idx].step_type = "ACTION"
      /\ steps[idx].tool_id \in DOMAIN Tools
      /\ \E n \in DOMAIN steps[idx].parameter_mappings :
           UnresolvedBinding(steps[idx].parameter_mappings[n], context, input_data))
     => (pc' = "returned" /\ response'.status = "failed")]_vars

-----------------------------------------------------------------------------
(* The claims on prompt templates *)

StringTokens == TokensOfType(template.tokens, "string")
FileTokens == TokensOfType(template.tokens, "file")

\* some declared string or file token has no value in the request
SomeTokenUnbound ==
  \E i \in 1..Len(template.tokens) :
    \/ template.tokens[i].type = "string"
         /\ template.tokens[i].name \notin DOMAIN request.regular_variables
    \/ template.tokens[i].type = "file"
         /\ template.tokens[i].name \notin DOMAIN request.file_variables

\* C15: for every prompt template and every set of bound values, if a declared
\* string or file token has no bound value the call fails with a missing-token
\* error and the LLM client is never invoked.
C15_MissingTokenFails ==
  (llm.pc # "init" /\ template # NoTemplate /\ SomeTokenUnbound)
    => /\ llm.pc = "raised"
       /\ llm.exc.status_code = 400
       /\ llm.exc.detail.text \in { "Missing required string token: ",
                                     "Missing required file token: " }
       /\ llm.calls = 0

\* a call that failed for a file token without a value, the string tokens bound
C15_Witness ==
  /\ llm.pc = "raised"
  /\ llm.calls = 0
  /\ llm.exc.detail.text = "Missing required file token: "
  /\ StringTokens # <<>>

\* C16: when the output schema's type is object and the LLM response is not
\* valid JSON, the call fails with an invalid-response error whose detail
\* holds the raw response text; the text is never returned as if valid.
C16_InvalidJsonKeepsRawText ==
  (/\ llm.calls = 1
   /\ llm.llm_response # None
   /\ template.output_schema.type = "object"
   /\ ~IsJson(llm.llm_response))
    => /\ llm.pc = "raised"
       /\ llm.exc.detail.arg = llm.llm_response

\* the text with every placeholder of a declared string token replaced by
\* str(value), in one pass from left to right
RECURSIVE LiteralSubstitution(_, _, _)
LiteralSubstitution(text, string_tokens, regular_variables) ==
  IF text = <<>> THEN <<>>
  ELSE
    LET here == { i \in 1..Len(string_tokens) :
                    StartsWith(text, Placeholder(string_tokens[i].name)) }
    IN  IF here = {}
          THEN <<Head(text)>> \o LiteralSubstitution(Tail(text), string_tokens, regular_variables)
        ELSE LET token_name == string_tokens[Min(here)].name
             IN  PyStr(regular_variables[token_name])
                   \o LiteralSubstitution(Drop(text, Len(Placeholder(token_name))),
                                          string_tokens, regular_variables)

\* the text of a message content: the string, or the texts of its parts
ContentText(content) ==
  IF content.kind = "str" THEN content.text
  ELSE Concat([i \in 1..Len(content.parts) |-> content.parts[i].text])

\* C17: for a template without file tokens the compiled user content is
\* textually the user template with every placeholder of a string token
\* replaced by str(value), nothing added, removed or trimmed, and the system
\* text is substituted the same way.
C17_ContentIsSubstitutedTemplate ==
  (llm.calls = 1 /\ FileTokens = <<>>)
    => /\ ContentText(llm.messages[1].content)
            = LiteralSubstitution(template.user_message_template, StringTokens,
                                  request.regular_variables)
       /\ llm.system
            = LiteralSubstitution(template.system_message_template, StringTokens,
                                  request.regular_variables)

StringTokensBound ==
  \A i \in 1..Len(StringTokens) : StringTokens[i].name \in DOMAIN request.regular_variables

SubstitutedOnce(text) == ReplaceStringTokens(text, StringTokens, request.regular_variables)

\* C18: string-token substitution is idempotent: substituting the same values
\* a second time into the substituted text changes nothing, for every
\* template and every assignment of string values.
C18_SubstitutionIdempotent ==
  (template # NoTemplate /\ StringTokensBound)
    => /\ SubstitutedOnce(SubstitutedOnce(template.user_message_template))
            = SubstitutedOnce(template.user_message_template)
       /\ SubstitutedOnce(SubstitutedOnce(template.system_message_template))
            = SubstitutedOnce(template.system_message_template)

Braces == {"{", "}"}

BraceFree(text) == \A i \in 1..Len(text) : text[i] \notin Braces

\* the braces of the text occur only in whole placeholders {{name}}
RECURSIVE WholePlaceholders(_)
WholePlaceholders(text) ==
  IF text = <<>> THEN TRUE
  ELSE IF Head(text) \notin Braces THEN WholePlaceholders(Tail(text))
  ELSE /\ StartsWith(text, <<"{", "{">>)
       /\ LET rest == Drop(text, 2)
               closing == { i \in 1..Len(rest) : rest[i] \in Braces }
           IN  /\ closing # {}
               /\ StartsWith(Drop(rest, Min(closing) - 1), <<"}", "}">>)
               /\ WholePlaceholders(Drop(rest, Min(closing) + 1))

BraceFreeValues ==
  \A i \in 1..Len(StringTokens) :
    BraceFree(PyStr(request.regular_variables[StringTokens[i].name]))

\* C18, amended: substitution is idempotent when no bound value holds a brace
\* and the braces of the templates occur only in whole placeholders.
C18_IdempotentWithoutBraces ==
  (/\ template # NoTemplate
   /\ StringTokensBound
   /\ BraceFreeValues
   /\ WholePlaceholders(template.user_message_template)
   /\ WholePlaceholders(template.system_message_template))
    => /\ SubstitutedOnce(SubstitutedOnce(template.user_message_template))
            = SubstitutedOnce(template.user_message_template)
       /\ SubstitutedOnce(SubstitutedOnce(template.system_message_template))
            = SubstitutedOnce(template.system_message_template)

\* a compiled call whose substitution replaced placeholders by brace-free values
C18_Witness ==
  /\ llm.calls = 1
  /\ Len(StringTokens) = 2
  /\ BraceFreeValues
  /\ WholePlaceholders(template.user_message_template)
  /\ WholePlaceholders(template.system_message_template)
  /\ SubstitutedOnce(template.user_message_template) # template.user_message_template
  /\ SubstitutedOnce(template.system_message_template) # template.system_message_template

\* the segments of one file: its extracted text, if any, and one image
\* segment per image
FileSegments(file_id) ==
  (IF Files[file_id].extracted_text # <<>>
     THEN <<TextPart(Files[file_id].extracted_text)>> ELSE <<>>)
  \o [i \in 1..Len(Files[file_id].images) |-> ImagePart(Files[file_id].images[i])]

\* the segments in the textual order of the file markers
RECURSIVE SegmentsInTextualOrder(_, _, _)
SegmentsInTextualOrder(text, file_tokens, file_variables) ==
  LET at == { i \in 1..Len(text) :
                \E k \in 1..Len(file_tokens) :
                  StartsWith(Drop(text, i - 1), FileMarker(file_tokens[k].name)) }
  IN  IF at = {} THEN WithText(<<>>, text)
      ELSE LET i == Min(at)
               k == CHOOSE j \in 1..Len(file_tokens) :
                      StartsWith(Drop(text, i - 1), FileMarker(file_tokens[j].name))
               token_name == file_tokens[k].name
           IN  WithText(<<>>, SubSeq(text, 1, i - 1))
                 \o FileSegments(file_variables[token_name])
                 \o SegmentsInTextualOrder(Drop(text, i - 1 + Len(FileMarker(token_name))),
                                           file_tokens, file_variables)

\* the marker of every declared file token occurs once in the user text
EachMarkerOnce ==
  \A k \in 1..Len(FileTokens) :
    Len(Split(SubstitutedOnce(template.user_message_template),
              FileMarker(FileTokens[k].name))) = 2

\* C19: for a user template with file tokens the content segments follow the
\* textual order of the file markers (the non-blank text before a marker, the
\* file's extracted text if any, one image segment per image, and the
\* non-blank remainder at the end), whatever the order the tokens are declared in.
C19_SegmentsInTextualOrder ==
  (llm.calls = 1 /\ FileTokens # <<>> /\ EachMarkerOnce)
    => /\ llm.messages[1].content.kind = "parts"
       /\ llm.messages[1].content.parts
            = SegmentsInTextualOrder(SubstitutedOnce(template.user_message_template),
                                     FileTokens, request.file_variables)

Optional(token) == "required" \in DOMAIN token /\ ~token.required

C21_MissingTemplateEmptySignature ==
  [][(~llm.signature.derived /\ llm'.signature.derived /\ template = NoTemplate)
       => /\ llm'.signature.parameters = <<>>
          /\ llm'.signature.outputs = <<>>
          /\ llm'.exc = NoExc
          /\ llm'.pc = llm.pc]_vars

\* the signature derived for a template id that names no template
C21_Witness == llm.signature.derived /\ template = NoTemplate

\* C22: after any sequence of create_workflow, update_workflow and add_step
\* the sequence numbers of the stored steps are exactly 0..N-1, no gap and no
\* duplicate, N being the number of steps.
C22_StoredSequenceNumbersDense ==
  db # NoWorkflow => DenseSequenceNumbers(db.steps)

-----------------------------------------------------------------------------
(* The claims on parameter resolution *)

IsInputMapping(m) == Len(m) >= 2 /\ m[1] = "input"
IsStepMapping(m) == Len(m) >= 3 /\ m[1] = "step"

\* resolving reads only: the input, the variables and the step outputs stay,
\* and a second resolution gives what the first gave
ResolutionReadsOnly ==
  /\ input_data' = input_data
  /\ context' = context
  /\ resolution.times >= 1 => (resolution'.value = resolution.value
                                 /\ resolution'.pc = resolution.pc)

\* an input mapping yields the input under its name, a step mapping the
\* recorded output, when they are there
ResolutionOfReferences ==
  LET m == resolution.mapping
  IN  /\ (IsInputMapping(m) /\ JoinDots(Tail(m)) \in DOMAIN input_data)
           => (resolution'.pc = "returned"
                 /\ resolution'.value = input_data[JoinDots(Tail(m))])
      /\ (/\ IsStepMapping(m)
          /\ m[2] \in DOMAIN context.step_outputs
          /\ JoinDots(Tail(Tail(m))) \in DOMAIN context.step_outputs[m[2]])
           => (resolution'.pc = "returned"
                 /\ resolution'.value = context.step_outputs[m[2]][JoinDots(Tail(Tail(m)))])

UnknownParameter(step) ==
  \E n \in DOMAIN step.parameter_mappings :
    \A i \in 1..Len(Tools[step.tool_id].signature.parameters) :
      Tools[step.tool_id].signature.parameters[i].name # n

\* the parameter_mappings omit a parameter that the signature marks required
OmittedRequiredParameter(step) ==
  \E i \in 1..Len(Tools[step.tool_id].signature.parameters) :
    /\ Tools[step.tool_id].signature.parameters[i].required
    /\ Tools[step.tool_id].signature.parameters[i].name \notin DOMAIN step.parameter_mappings

StepSucceeds == pc = "running" /\ ExecuteStep(steps[idx], context, input_data).ok

\* C25: after each successfully executed step the step's returned record is
\* stored under step_outputs[step id], and for every output_mappings entry
\* whose output name is in the record the named variable takes that value,
\* overwriting what an earlier step wrote; entries whose output name is not in
\* the record and all other variables are left as they were.
C25_StepResultRecorded ==
  [][StepSucceeds =>
       LET step == steps[idx]
           record == ExecuteStep(step, context, input_data).result
           written == { o \in DOMAIN step.output_mappings : o \in DOMAIN record }
           targets == { step.output_mappings[o] : o \in written }
       IN  /\ context'.step_outputs = Put(context.step_outputs, step.step_id, record)
           /\ DOMAIN context'.output = (DOMAIN context.output) \cup targets
           /\ \A o \in written : context'.output[step.output_mappings[o]] = record[o]
           /\ \A v \in (DOMAIN context.output) \ targets :
                context'.output[v] = context.output[v]]_vars

\* an ACTION step wrote over the variable an INPUT step had written, and its
\* mapping of an output the record has not wrote nothing
C25_Witness ==
  /\ InRun
  /\ Len(executed) = 2
  /\ steps[1].step_type = "INPUT"
  /\ steps[2].step_type = "ACTION"
  /\ "s2" \in DOMAIN context.step_outputs
  /\ context.output = ("greeting" :> context.step_outputs["s2"]["response"])

\* C26: after execute_workflow returns, the persisted status and error, which a
\* later get_workflow reads from the stored row, equal the status and error of
\* the returned result.
C26_PersistedStatusMatchesResult ==
  pc = "returned" => /\ db.status = response.status
                     /\ db.error = response.error

\* a step _execute_step has no branch for
UnsupportedStep(step) ==
  \/ step.step_type = "EVALUATION"
  \/ step.step_type = "ACTION" /\ step.tool_id = NoTool

C28_RunningWhileAnyRunExecutes ==
  (\E r \in Runs : runs[r].pc = "running") =>
    \A q \in Runs : runs[q].pc \in {"running", "returned"} =>
                      runs[q].workflow.status = "running"

\* C29: whenever the status is completed the error field is empty, on the
\* stored row, on the object execute_workflow assigns to and in the returned
\* result: a successful run carries no error of an earlier failed run.
C29_CompletedHasNoError ==
  /\ db.status = "completed" => db.error = None
  /\ workflow.status = "completed" => workflow.error = None
  /\ response.status = "completed" => response.error = None

\* a run of a workflow completed
C29_Witness ==
  /\ pc = "returned"
  /\ workflow.status = "completed"
  /\ response.status = "completed"
  /\ workflow.error = None

\* the places of the text where the marker of the file token `name` starts
MarkerAt(text, name) ==
  { i \in 1..Len(text) : StartsWith(Drop(text, i - 1), FileMarker(name)) }

\* the non-blank stretches of the text outside the markers of the file tokens,
\* stripped, in the order of the text
RECURSIVE TextStretches(_, _)
TextStretches(text, file_tokens) ==
  LET at == UNION { MarkerAt(text, file_tokens[k].name) : k \in 1..Len(file_tokens) }
  IN  IF at = {} THEN WithText(<<>>, text)
      ELSE LET i == Min(at)
               k == CHOOSE j \in 1..Len(file_tokens) : i \in MarkerAt(text, file_tokens[j].name)
           IN  WithText(<<>>, SubSeq(text, 1, i - 1))
                 \o TextStretches(Drop(text, i - 1 + Len(FileMarker(file_tokens[k].name))),
                                  file_tokens)

\* the text segments of the content that carry a stretch of the template
SegmentsOfStretches(content_parts, stretches) ==
  LET OfTemplate(part) ==
        part.type = "text" /\ \E n \in 1..Len(stretches) : stretches[n] = part
  IN  SelectSeq(content_parts, OfTemplate)

\* every declared file marker occurs in the user text, and the first
\* occurrences come in the order the tokens are declared in
MarkersInDeclaredOrder ==
  LET text == SubstitutedOnce(template.user_message_template)
  IN  /\ \A k \in 1..Len(FileTokens) : MarkerAt(text, FileTokens[k].name) # {}
      /\ \A k \in 1..Len(FileTokens), j \in 1..Len(FileTokens) :
            k < j => Min(MarkerAt(text, FileTokens[k].name))
                       < Min(MarkerAt(text, FileTokens[j].name))

\* C30: every non-blank stretch of user-template text outside the file
\* markers appears in exactly one text segment of the content, in template
\* order, also when the same file marker occurs more than once (checked for
\* markers whose first occurrences follow the declaration order).
C30_TemplateTextKept ==
  (llm.calls = 1 /\ FileTokens # <<>> /\ MarkersInDeclaredOrder)
    => LET stretches == TextStretches(SubstitutedOnce(template.user_message_template),
                                      FileTokens)
       IN  /\ llm.messages[1].content.kind = "parts"
           /\ SegmentsOfStretches(llm.messages[1].content.parts, stretches) = stretches

=============================================================================
